---- MODULE Spec2Model ----
(***************************************************************************)
(* A model of the qr software rasterizer (src/src/*.rs): the rectangle and *)
(* triangle iterators, the Shape dispatch, the generic Renderer::draw and  *)
(* the double-buffered SimpleRenderer.                                     *)
(*                                                                         *)
(* Numbers.  The primitives are instantiated at T = f64.  A coordinate is  *)
(* an integer-valued f64 with its sign bit, [neg, abs], so that +0.0 and   *)
(* -0.0 are different values, as they are for Signed::is_positive and for  *)
(* a division by zero.  A barycentric weight is an f64 of any value,       *)
(* [neg, exp, sig] with a 53-bit significand: the division, the additions  *)
(* and the subtractions of tri.rs round to nearest, ties to even, as the   *)
(* hardware does, and a division by zero gives an infinity or NaN.         *)
(***************************************************************************)
EXTENDS Integers, Sequences, FiniteSets

VARIABLES
    rect,      \* the Rectangle handed to into_iter (rect.rs)
    rit,       \* rect::IntoIter: its fields x, y, width, height
    tri,       \* the Triangle handed to into_iter (tri.rs)
    tit,       \* tri::IntoIter: its fields det, rect, points
    out,       \* the items the iterator under test has returned, in order
    ret,       \* what the last call of next() returned: <<>> (None) or <<item>>
    calls,     \* the number of next() calls made so far
    idle,      \* how many of the last calls in a row returned None
    shape,     \* the Shape handed to into_iter (shape.rs), <<>> when none is iterated
    sit,       \* shape::IntoIter: [kind, it], it the wrapped primitive's iterator
    attrs,     \* TRUE: get_attr and set_attr are SimpleRenderer's; FALSE: the trait's defaults
    width,     \* SimpleRenderer.width
    height,    \* SimpleRenderer.height
    color,     \* SimpleRenderer.color: <<>> (None) or <<c>>
    front,     \* SimpleRenderer.front, row-major, index y * width + x + 1
    back,      \* SimpleRenderer.back
    mesh,      \* the mesh the caller draws: a sequence of Shape values
    lastOp,    \* the renderer method called last
    res,       \* what the last draw returned: [ok, shapes, verts, frags]; ok = FALSE: it panicked
    puts,      \* the put_pixel calls the last draw made: a sequence of <<p, px>>
    pre,       \* color, front and back as they were before the last call
    direct     \* the number of put_pixel calls made by the caller itself

vars == <<rect, rit, tri, tit, out, ret, calls, idle, shape, sit, attrs, width, height,
          color, front, back, mesh, lastOp, res, puts, pre, direct>>

iterVars == <<rect, rit, tri, tit, out, ret, calls, idle, shape, sit>>
rendVars == <<attrs, width, height, color, front, back, mesh, lastOp, res, puts, pre,
              direct>>

(***************************************************************************)
(* Bounds of the model.                                                    *)
(***************************************************************************)
MaxCoord == 3      \* the largest vertex or bound coordinate
MaxNeg == 1        \* rectangle bounds go down to -MaxNeg
MaxIdle == 6       \* next() is called at most this often in a row after a None
MaxDim == 2        \* the renderer's width and height are in 1..MaxDim
MaxMesh == 2       \* a mesh holds at most this many drawables

\* the element of a one-element set: The({F(v) : v \in {e}}) evaluates e once and
\* hands F its value
The(S) == CHOOSE x \in S : TRUE

None == <<>>
Some(v) == <<v>>
IsSome(o) == o # <<>>

Abs(i) == IF i < 0 THEN 0 - i ELSE i
Min2(a, b) == IF a <= b THEN a ELSE b
Max2(a, b) == IF a >= b THEN a ELSE b

(***************************************************************************)
(* f64 restricted to integer values, with the sign bit.                    *)
(***************************************************************************)
\* i64 -> f64 (`as_`): the integer zero becomes +0.0
FromI64(i) == [neg |-> i < 0, abs |-> Abs(i)]
NegZero == [neg |-> TRUE, abs |-> 0]
\* f64 -> i64 (`as_`): both zeros become 0
ToI64(f) == IF f.neg THEN 0 - f.abs ELSE f.abs
\* f64 -> usize (`as_`): a negative value saturates to 0
ToUsize(f) == IF f.neg THEN 0 ELSE f.abs
\* IsPositive as the integer types have it: x > 0
IsPositiveStrict(f) == ~f.neg /\ f.abs # 0
\* <f64 as Signed>::is_positive: the sign bit is clear (+0.0 is positive, -0.0 is not)
IsPositive(f) == ~f.neg

FSub(a, b) ==
    LET v == ToI64(a) - ToI64(b)
    IN  IF v # 0 THEN FromI64(v)
        ELSE [neg |-> a.abs = 0 /\ b.abs = 0 /\ a.neg /\ ~b.neg, abs |-> 0]
FAdd(a, b) ==
    LET v == ToI64(a) + ToI64(b)
    IN  IF v # 0 THEN FromI64(v)
        ELSE [neg |-> a.abs = 0 /\ b.abs = 0 /\ a.neg /\ b.neg, abs |-> 0]
FMul(a, b) == [neg |-> a.neg # b.neg, abs |-> a.abs * b.abs]
FMin(a, b) == IF ToI64(a) <= ToI64(b) THEN a ELSE b
FMax(a, b) == IF ToI64(a) >= ToI64(b) THEN a ELSE b

(***************************************************************************)
(* f64 values of the weights.  A finite f64 is [neg, exp, sig]: sig is the *)
(* 53-bit significand as <<hi, lo>> = hi * 2^27 + lo, and the value is     *)
(* (-1)^neg * sig * 2^exp.  A nonzero value has 2^52 <= sig < 2^53; a zero *)
(* has sig = <<0, 0>>, exp 0 and its sign in neg.  An infinity has         *)
(* sig = <<1>>, NaN has sig = <<>>.  The arithmetic works on 56 bits, the  *)
(* significand and three bits below it, the lowest of which records        *)
(* whether anything nonzero was shifted out, and rounds to nearest, ties   *)
(* to even.  Results are normal numbers, zeros, infinities or NaN: the     *)
(* quotients and sums of tri.rs on integer coordinates are far above the   *)
(* subnormal range, which is not represented.                              *)
(***************************************************************************)
Precision == 53
MaxExp == 1023     \* the largest finite f64 is below 2^(MaxExp + 1)
LimbBits == 27
Limb == 2^LimbBits

\* the number of bits of n < 2^31
BitLen(n) ==
    IF n = 0 THEN 0 ELSE CHOOSE b \in 1..31 : 2^(b - 1) <= n /\ (b = 31 \/ n < 2^b)
WLen(w) == IF w[1] # 0 THEN LimbBits + BitLen(w[1]) ELSE BitLen(w[2])

\* w with its lowest bit set if something was lost
Jam(w, lost) == IF lost /\ w[2] % 2 = 0 THEN <<w[1], w[2] + 1>> ELSE w

\* w / 2^k, the bits shifted out kept as a 1 in the lowest bit
RECURSIVE WShr(_, _)
WShr(w, k) ==
    IF k = 0 THEN w
    ELSE IF k > 3 * LimbBits THEN <<0, IF w = <<0, 0>> THEN 0 ELSE 1>>
    ELSE IF k >= LimbBits
    THEN The({WShr(v, j) : v \in {Jam(<<w[1] \div Limb, w[1] % Limb>>, w[2] # 0)},
                           j \in {k - LimbBits}})
    ELSE The({Jam(<<w[1] \div p, (w[2] \div p) + (w[1] % p) * (Limb \div p)>>, w[2] % p # 0) :
                 p \in {2^k}})

\* w * 2^s, for a result below 2^57
RECURSIVE WShl(_, _)
WShl(w, s) ==
    IF s = 0 THEN w
    ELSE IF s >= LimbBits
    THEN The({WShl(v, j) : v \in {<<w[1] * Limb + w[2], 0>>}, j \in {s - LimbBits}})
    ELSE The({<<w[1] * p + w[2] \div (Limb \div p), (w[2] % (Limb \div p)) * p>> :
                 p \in {2^s}})

WAdd(a, b) == <<a[1] + b[1] + (a[2] + b[2]) \div Limb, (a[2] + b[2]) % Limb>>
\* a - b for a >= b
WSub(a, b) ==
    IF a[2] >= b[2] THEN <<a[1] - b[1], a[2] - b[2]>>
    ELSE <<a[1] - b[1] - 1, a[2] + Limb - b[2]>>
WLess(a, b) == a[1] < b[1] \/ (a[1] = b[1] /\ a[2] < b[2])

F64Zero == [neg |-> FALSE, exp |-> 0, sig |-> <<0, 0>>]
F64One == [neg |-> FALSE, exp |-> 1 - Precision, sig |-> <<2^(Precision - 1 - LimbBits), 0>>]
F64IsZero(x) == x.sig = <<0, 0>>
NaN == [neg |-> FALSE, exp |-> 0, sig |-> <<>>]
Inf(negative) == [neg |-> negative, exp |-> 0, sig |-> <<1>>]
IsNaN(x) == x.sig = <<>>
IsInf(x) == x.sig = <<1>>
IsFinite(x) == Len(x.sig) = 2

\* the f64 nearest to (-1)^neg * w * 2^e, ties to even, for 2^55 <= w < 2^56 whose
\* lowest bit stands for everything below it
F64RoundV(neg, w, e) ==
    LET grs == w[2] % 8
        lo == w[2] \div 8 + (w[1] % 8) * (Limb \div 8)
        hi == w[1] \div 8
        up == grs > 4 \/ (grs = 4 /\ lo % 2 = 1)
    IN  IF ~up THEN [neg |-> neg, exp |-> e + 3, sig |-> <<hi, lo>>]
        ELSE IF lo + 1 < Limb THEN [neg |-> neg, exp |-> e + 3, sig |-> <<hi, lo + 1>>]
        ELSE IF hi + 1 < 2^(Precision - LimbBits)
        THEN [neg |-> neg, exp |-> e + 3, sig |-> <<hi + 1, 0>>]
        ELSE [neg |-> neg, exp |-> e + 4, sig |-> <<2^(Precision - 1 - LimbBits), 0>>]
\* a result beyond the largest finite f64 is an infinity
F64Finite(x) == IF x.exp + Precision - 1 > MaxExp THEN Inf(x.neg) ELSE x
F64Round(neg, w, e) == The({F64Finite(F64RoundV(neg, v, e)) : v \in {w}})

\* the significand with three zero bits below it
Ext(sig) == <<sig[1] * 8 + (sig[2] * 8) \div Limb, (sig[2] * 8) % Limb>>

\* the next bits of r / d after the binary point, for r < d: <<them, what is left>>
DivStep(r, d, bits) == The({<<t \div d, t % d>> : t \in {r * 2^bits}})

\* the bits of r / d after the binary point, for r < d, in groups of the given
\* sizes, and what is left of r after them
RECURSIVE DivBits(_, _, _)
DivBits(r, d, sizes) ==
    IF sizes = <<>> THEN <<r>>
    ELSE The({<<s[1]>> \o DivBits(s[2], d, Tail(sizes)) : s \in {DivStep(r, d, Head(sizes))}})

\* n / d in f64 for integers 0 < n, d < 2^15: the quotient is scaled into [1, 2),
\* its first 56 bits are divided out and rounded once
F64DivNat(neg, n, d) ==
    LET k0 == BitLen(n) - BitLen(d)
        n0 == IF k0 < 0 THEN n * 2^(0 - k0) ELSE n
        d1 == IF k0 > 0 THEN d * 2^k0 ELSE d
        n1 == IF n0 < d1 THEN 2 * n0 ELSE n0
        k == IF n0 < d1 THEN k0 - 1 ELSE k0
    IN  The({F64Round(neg,
                      Jam(<<2^28 + f[1] * 2^15 + f[2] * 4 + f[3] \div 2^11,
                            (f[3] % 2^11) * 2^16 + f[4] * 8 + f[5]>>, f[6] # 0),
                      k - 55) :
                f \in {DivBits(n1 - d1, d1, <<13, 13, 13, 13, 3>>)}})

\* FDiv with a zero divisor guarded to give 0.0
FDivGuarded(a, b) ==
    IF b.abs = 0 \/ a.abs = 0 THEN [F64Zero EXCEPT !.neg = (a.neg # b.neg)]
    ELSE F64DivNat(a.neg # b.neg, a.abs, b.abs)

\* a / b in f64, for integer-valued a and b: the quotient rounded once; x / 0.0 is
\* an infinity, 0.0 / 0.0 is NaN, and the sign of a zero or an infinity is the
\* exclusive or of the operands' signs
FDiv(a, b) ==
    IF b.abs = 0 THEN (IF a.abs = 0 THEN NaN ELSE Inf(a.neg # b.neg))
    ELSE IF a.abs = 0 THEN [F64Zero EXCEPT !.neg = (a.neg # b.neg)]
    ELSE F64DivNat(a.neg # b.neg, a.abs, b.abs)

\* |x| < |y| for finite nonzero x and y
F64MagLess(x, y) == x.exp < y.exp \/ (x.exp = y.exp /\ WLess(x.sig, y.sig))

\* x + y for finite nonzero x and y, |x| >= |y|
F64AddOrdered(x, y) ==
    LET Same(a, b) ==
            The({IF s[1] >= 2^29 THEN F64Round(x.neg, WShr(s, 1), x.exp - 2)
                 ELSE F64Round(x.neg, s, x.exp - 3) : s \in {WAdd(a, b)}})
        Norm(d) ==
            The({F64Round(x.neg, WShl(d, n), x.exp - 3 - n) : n \in {56 - WLen(d)}})
        Diff(a, b) ==
            IF a = b THEN F64Zero ELSE The({Norm(d) : d \in {WSub(a, b)}})
    IN  The({IF x.neg = y.neg THEN Same(a, b) ELSE Diff(a, b) :
                a \in {Ext(x.sig)}, b \in {WShr(Ext(y.sig), x.exp - y.exp)}})
\* x + y for finite x and y
F64AddV(x, y) ==
    IF F64IsZero(x) /\ F64IsZero(y) THEN [F64Zero EXCEPT !.neg = (x.neg /\ y.neg)]
    ELSE IF F64IsZero(x) THEN y
    ELSE IF F64IsZero(y) THEN x
    ELSE IF F64MagLess(x, y) THEN F64AddOrdered(y, x)
    ELSE F64AddOrdered(x, y)
\* x + y in f64
F64Add(x, y) ==
    IF IsNaN(x) \/ IsNaN(y) THEN NaN
    ELSE IF IsInf(x) /\ IsInf(y) THEN (IF x.neg = y.neg THEN x ELSE NaN)
    ELSE IF IsInf(x) THEN x
    ELSE IF IsInf(y) THEN y
    ELSE The({F64AddV(u, v) : u \in {x}, v \in {y}})
F64Neg(x) == IF IsNaN(x) THEN x ELSE [x EXCEPT !.neg = ~x.neg]
F64Sub(x, y) == F64Add(x, F64Neg(y))
\* x >= 0.0 and x <= 1.0: every comparison with NaN is false
F64GeZero(x) == ~IsNaN(x) /\ (F64IsZero(x) \/ ~x.neg)
F64LeOne(x) ==
    IF IsNaN(x) THEN FALSE
    ELSE IF IsInf(x) THEN x.neg
    ELSE x.neg \/ F64IsZero(x) \/ x = F64One \/ x.exp + Precision <= 0
\* x == y
F64Eq(x, y) == ~IsNaN(x) /\ ~IsNaN(y) /\ ((F64IsZero(x) /\ F64IsZero(y)) \/ x = y)

\* x * 2.0
F64Double(x) ==
    IF IsFinite(x) /\ ~F64IsZero(x) THEN F64Finite([x EXCEPT !.exp = @ + 1]) ELSE x

\* An i64 is [neg, mag]: mag is the magnitude as <<h, m, l>> = h * 2^54 + m * 2^27 + l,
\* and zero has neg = FALSE.
\* The i64 of the integer n. For n < 0 the magnitude is (-(n + 1)) + 1, so that
\* every n the checker can represent, its least one included, has its limbs.
I64Of(n) ==
    LET a == IF n < 0 THEN 0 - (n + 1) ELSE n
        m == a \div Limb
        l == a % Limb
    IN  [neg |-> n < 0,
         mag |-> IF n >= 0 THEN <<0, m, l>>
                 ELSE IF l + 1 = Limb THEN <<0, m + 1, 0>>
                 ELSE <<0, m, l + 1>>]
I64Max == [neg |-> FALSE, mag |-> <<2^9 - 1, Limb - 1, Limb - 1>>]
I64Min == [neg |-> TRUE, mag |-> <<2^9, 0, 0>>]

\* f64 -> i64 (`as`): the fraction is dropped (rounding toward zero), NaN gives 0,
\* and a value beyond the range of i64, an infinity included, gives i64::MAX or
\* i64::MIN
F64ToI64(x) ==
    LET s == 0 - x.exp
        hi == x.sig[1]
        lo == x.sig[2]
        Up(e) == The({<<hi \div q, (hi % q) * 2^e + lo \div q, (lo % q) * 2^e>> :
                         q \in {2^(LimbBits - e)}})
        Down(k) == IF k >= LimbBits THEN <<0, 0, hi \div 2^(k - LimbBits)>>
                   ELSE The({<<0, hi \div q, lo \div q + (hi % q) * (Limb \div q)>> :
                                q \in {2^k}})
        Signed(mag) == [neg |-> x.neg /\ mag # <<0, 0, 0>>, mag |-> mag]
    IN  IF IsNaN(x) THEN I64Of(0)
        ELSE IF IsInf(x) \/ (~F64IsZero(x) /\ x.exp >= 64 - Precision)
        THEN (IF x.neg THEN I64Min ELSE I64Max)
        ELSE IF F64IsZero(x) \/ s >= Precision THEN I64Of(0)
        ELSE IF s <= 0 THEN Signed(Up(x.exp))
        ELSE Signed(Down(s))

(***************************************************************************)
(* rect.rs: Rectangle and its iterator.  A Range<i64> is <<start, end>>.   *)
(***************************************************************************)
Rectangle(x0, x1, y0, y1) == [x0 |-> x0, x1 |-> x1, y0 |-> y0, y1 |-> y1]

\* Range::next: [r |-> the range after the call, v |-> None or Some(start)]
RangeNext(r) ==
    IF r[1] < r[2] THEN [r |-> <<r[1] + 1, r[2]>>, v |-> Some(r[1])]
    ELSE [r |-> r, v |-> None]

\* RectIntoIter taking y0 as the first row without asking the height range
RectIntoIterEager(r) ==
    [x |-> <<ToI64(r.x0), ToI64(r.x1)>>, y |-> Some(ToI64(r.y0)),
     width |-> <<ToI64(r.x0), ToI64(r.x1)>>,
     height |-> <<ToI64(r.y0) + 1, ToI64(r.y1)>>]

\* Rectangle::into_iter: the bounds are converted to i64
RectIntoIter(r) ==
    LET w == <<ToI64(r.x0), ToI64(r.x1)>>
        h == RangeNext(<<ToI64(r.y0), ToI64(r.y1)>>)
    IN  [x |-> w, y |-> h.v, width |-> w, height |-> h.r]

\* RectNewRow without `self.x = self.width.clone()`
RectNewRowNoReset(it, y) ==
    LET nx == RangeNext(it.x)
    IN  [it |-> [it EXCEPT !.y = Some(y), !.x = nx.r], v |-> nx.v]

\* the closure handed to and_then, for the row y that height.next() returned
RectNewRow(it, y) ==
    LET nx == RangeNext(it.width)
    IN  [it |-> [it EXCEPT !.y = Some(y), !.x = nx.r], v |-> nx.v]

\* the closure handed to the outer or_else: self.x is exhausted
RectAdvance(it) ==
    LET nh == RangeNext(it.height)
        it1 == [it EXCEPT !.height = nh.r]
        row == IF IsSome(nh.v) THEN RectNewRow(it1, nh.v[1])
               ELSE [it |-> it1, v |-> None]
    IN  IF IsSome(row.v) THEN row
        ELSE [it |-> [row.it EXCEPT !.y = None], v |-> None]

\* rect::IntoIter::next: [it |-> the iterator after the call, item |-> None or Some(<<x, y>>)]
RectNext(it) ==
    LET nx == RangeNext(it.x)
        it1 == [it EXCEPT !.x = nx.r]
        got == IF IsSome(nx.v) THEN [it |-> it1, v |-> nx.v] ELSE RectAdvance(it1)
    IN  [it |-> got.it,
         item |-> IF IsSome(got.v) /\ IsSome(got.it.y)
                  THEN Some(<<FromI64(got.v[1]), FromI64(got.it.y[1])>>) ELSE None]

\* the items next() returns up to its first None, in order (Iterator::collect, fold)
RECURSIVE RectCollect(_)
RectCollect(it) ==
    LET Rest(n) == IF ~IsSome(n.item) THEN <<>>
                   ELSE <<n.item[1]>> \o RectCollect(n.it)
    IN  The({Rest(n) : n \in {RectNext(it)}})

(***************************************************************************)
(* tri.rs: Triangle and its iterator.  A vertex is <<x, y>> of f64.        *)
(***************************************************************************)
Triangle(p1, p2, p3) == [points |-> <<p1, p2, p3>>]

\* Triangle::det
TriDet(t) ==
    LET x1 == t.points[1][1]  y1 == t.points[1][2]
        x2 == t.points[2][1]  y2 == t.points[2][2]
        x3 == t.points[3][1]  y3 == t.points[3][2]
    IN  FAdd(FMul(FSub(y2, y3), FSub(x1, x3)), FMul(FSub(x3, x2), FSub(y1, y3)))

\* TriIntoIter over the closed bounding rectangle, max_x and max_y included
TriIntoIterClosed(t) ==
    LET ps == t.points
        min_x == FMin(FMin(ps[1][1], ps[2][1]), ps[3][1])
        max_x == FMax(FMax(ps[1][1], ps[2][1]), ps[3][1])
        min_y == FMin(FMin(ps[1][2], ps[2][2]), ps[3][2])
        max_y == FMax(FMax(ps[1][2], ps[2][2]), ps[3][2])
    IN  [det |-> TriDet(t),
         rect |-> RectIntoIter(Rectangle(min_x, FAdd(max_x, FromI64(1)),
                                         min_y, FAdd(max_y, FromI64(1)))),
         points |-> ps]

\* Triangle::into_iter: the iterator over the vertices' bounding rectangle
TriIntoIter(t) ==
    LET ps == t.points
        min_x == FMin(FMin(ps[1][1], ps[2][1]), ps[3][1])
        max_x == FMax(FMax(ps[1][1], ps[2][1]), ps[3][1])
        min_y == FMin(FMin(ps[1][2], ps[2][2]), ps[3][2])
        max_y == FMax(FMax(ps[1][2], ps[2][2]), ps[3][2])
    IN  [det |-> TriDet(t),
         rect |-> RectIntoIter(Rectangle(min_x, max_x, min_y, max_y)),
         points |-> ps]

\* the weights p1 and p2 of the candidate (x, y), as next() computes them
TriP1(it, x, y) ==
    LET x2 == it.points[2][1]  y2 == it.points[2][2]
        x3 == it.points[3][1]  y3 == it.points[3][2]
    IN  FDiv(FAdd(FMul(FSub(y2, y3), FSub(x, x3)), FMul(FSub(x3, x2), FSub(y, y3))),
             it.det)
TriP2(it, x, y) ==
    LET x1 == it.points[1][1]  y1 == it.points[1][2]
        x3 == it.points[3][1]  y3 == it.points[3][2]
    IN  FDiv(FAdd(FMul(FSub(y3, y1), FSub(x, x3)), FMul(FSub(x1, x3), FSub(y, y3))),
             it.det)

\* TriAccept without the test p2 >= 0
TriAcceptNoP2(p1, p2) == F64GeZero(p1) /\ F64LeOne(F64Add(p1, p2))

\* TriAccept rejecting the points on the edges opposite to the first two vertices
TriAcceptOffEdge(p1, p2) ==
    /\ F64GeZero(p1) /\ ~F64IsZero(p1) /\ F64GeZero(p2) /\ ~F64IsZero(p2)
    /\ F64LeOne(F64Add(p1, p2))

\* the containment test of next(): p1 >= T::zero() && p2 >= T::zero() && p1 + p2 <= T::one()
TriAccept(p1, p2) == F64GeZero(p1) /\ F64GeZero(p2) /\ F64LeOne(F64Add(p1, p2))

\* tri::IntoIter::next: the loop runs to the first accepted candidate or to the end
\* of the rectangle.  [it, item |-> None or Some(<<<<x, y>>, <<p1, p2, p3>>>>)]
RECURSIVE TriNext(_)
TriNext(it) ==
    LET Candidate(it1, x, y, p1, p2) ==
            IF TriAccept(p1, p2)
            THEN [it |-> it1,
                  item |-> Some(<<<<x, y>>, <<p1, p2, F64Sub(F64Sub(F64One, p1), p2)>>>>)]
            ELSE TriNext(it1)
        Arm(it1, item) ==
            IF ~IsSome(item) THEN [it |-> it1, item |-> None]
            ELSE The({Candidate(it1, item[1][1], item[1][2], p[1], p[2]) :
                         p \in {<<TriP1(it1, item[1][1], item[1][2]),
                                  TriP2(it1, item[1][1], item[1][2])>>}})
    IN  The({Arm(r[1], r[2]) :
                r \in {The({<<[i EXCEPT !.rect = n.it], n.item>> : n \in {RectNext(i.rect)}}) :
                           i \in {it}}})

RECURSIVE TriCollect(_)
TriCollect(it) ==
    LET Rest(n) == IF ~IsSome(n.item) THEN <<>>
                   ELSE <<n.item[1]>> \o TriCollect(n.it)
    IN  The({Rest(n) : n \in {TriNext(it)}})

(***************************************************************************)
(* The iterators driven call by call.                                      *)
(***************************************************************************)
NoRect == Rectangle(FromI64(0), FromI64(0), FromI64(0), FromI64(0))
NoTri == Triangle(<<FromI64(0), FromI64(0)>>, <<FromI64(0), FromI64(0)>>,
                  <<FromI64(0), FromI64(0)>>)

NoResult == [ok |-> TRUE, shapes |-> 0, verts |-> 0, frags |-> 0]

RendIdle ==
    /\ shape = <<>> /\ sit = <<>>
    /\ attrs = TRUE
    /\ width = 0 /\ height = 0 /\ color = None /\ front = <<>> /\ back = <<>>
    /\ mesh = <<>> /\ lastOp = "new" /\ res = NoResult /\ puts = <<>>
    /\ pre = [color |-> None, front |-> <<>>, back |-> <<>>]
    /\ direct = 0

RectCoords == (0 - MaxNeg)..MaxCoord
TriCoords == 0..MaxCoord

InitRect ==
    /\ rect \in {Rectangle(FromI64(x0), FromI64(x1), FromI64(y0), FromI64(y1)) :
                    x0 \in RectCoords, x1 \in RectCoords,
                    y0 \in RectCoords, y1 \in RectCoords}
    /\ rit = RectIntoIter(rect)
    /\ tri = NoTri /\ tit = TriIntoIter(NoTri)
    /\ out = <<>> /\ ret = None /\ calls = 0 /\ idle = 0
    /\ RendIdle

\* one call of rect::IntoIter::next
RectStep ==
    /\ idle < MaxIdle
    /\ \E n \in {RectNext(rit)} :
           /\ rit' = n.it
           /\ ret' = n.item
           /\ out' = IF IsSome(n.item) THEN Append(out, n.item[1]) ELSE out
           /\ idle' = IF IsSome(n.item) THEN 0 ELSE idle + 1
    /\ calls' = calls + 1
    /\ UNCHANGED <<rect, tri, tit, shape, sit>>
    /\ UNCHANGED rendVars

SpecRect == InitRect /\ [][RectStep]_vars

TriPoints == {<<FromI64(x), FromI64(y)>> : x \in TriCoords, y \in TriCoords}

InitTri ==
    /\ tri \in {Triangle(a, b, c) : a \in TriPoints, b \in TriPoints, c \in TriPoints}
    /\ tit = TriIntoIter(tri)
    /\ rect = NoRect /\ rit = RectIntoIter(NoRect)
    /\ out = <<>> /\ ret = None /\ calls = 0 /\ idle = 0
    /\ RendIdle

\* one call of tri::IntoIter::next
TriStep ==
    /\ idle < MaxIdle
    /\ \E n \in {TriNext(tit)} :
           /\ tit' = n.it
           /\ ret' = n.item
           /\ out' = IF IsSome(n.item) THEN Append(out, n.item[1]) ELSE out
           /\ idle' = IF IsSome(n.item) THEN 0 ELSE idle + 1
    /\ calls' = calls + 1
    /\ UNCHANGED <<rect, rit, tri, shape, sit>>
    /\ UNCHANGED rendVars

SpecTri == InitTri /\ [][TriStep]_vars

(***************************************************************************)
(* The triangle iterator with the weights as f64 values.                   *)
(***************************************************************************)
MaxWeightCoord == 5    \* the largest vertex coordinate of the triangles iterated in f64

WeightCoords == 0..MaxWeightCoord
WeightPoints == {<<FromI64(x), FromI64(y)>> : x \in WeightCoords, y \in WeightCoords}

\* the triangles with a vertex at the origin whose bounding rectangle holds at most
\* 2 * MaxWeightCoord candidates
WeightTriangles ==
    {Triangle(<<FromI64(0), FromI64(0)>>, bc[1], bc[2]) :
        bc \in {v \in WeightPoints \X WeightPoints :
                   Max2(ToI64(v[1][1]), ToI64(v[2][1])) * Max2(ToI64(v[1][2]), ToI64(v[2][2]))
                       <= 2 * MaxWeightCoord}}

InitWeights ==
    /\ tri \in WeightTriangles
    /\ tit = TriIntoIter(tri)
    /\ rect = NoRect /\ rit = RectIntoIter(NoRect)
    /\ out = <<>> /\ ret = None /\ calls = 0 /\ idle = 0
    /\ RendIdle

\* one call of tri::IntoIter::next
WeightStep ==
    /\ idle < 1
    /\ \E n \in {TriNext(tit)} :
           /\ tit' = n.it
           /\ ret' = n.item
           /\ out' = IF IsSome(n.item) THEN Append(out, n.item[1]) ELSE out
           /\ idle' = IF IsSome(n.item) THEN 0 ELSE idle + 1
    /\ calls' = calls + 1
    /\ UNCHANGED <<rect, rit, tri, shape, sit>>
    /\ UNCHANGED rendVars

SpecWeights == InitWeights /\ [][WeightStep]_vars

(***************************************************************************)
(* Reference enumerations, stated without the iterators.                   *)
(***************************************************************************)
\* the points of [x0, x1) x [y0, y1), x fastest, y ascending
RowMajor(x0, x1, y0, y1) ==
    IF x0 < x1 /\ y0 < y1
    THEN [i \in 1..((x1 - x0) * (y1 - y0)) |->
             <<x0 + ((i - 1) % (x1 - x0)), y0 + ((i - 1) \div (x1 - x0))>>]
    ELSE <<>>

Prefix(s, n) == SubSeq(s, 1, Min2(n, Len(s)))
PointF(p) == <<FromI64(p[1]), FromI64(p[2])>>
RX0 == ToI64(rect.x0)
RX1 == ToI64(rect.x1)
RY0 == ToI64(rect.y0)
RY1 == ToI64(rect.y1)

\* C3: for x0 < x1 and y0 < y1 the rectangle iterator returns, call after call,
\* the points of [x0,x1) x [y0,y1) in row-major order starting at (x0,y0), each
\* once, (x1-x0)*(y1-y0) of them, and None from then on.
C3_RectRowMajor ==
    (RX0 < RX1 /\ RY0 < RY1) =>
        LET all == RowMajor(RX0, RX1, RY0, RY1)
            area == (RX1 - RX0) * (RY1 - RY0)
        IN  /\ Len(all) = area
            /\ Len(out) = Min2(calls, area)
            /\ \A i \in 1..Len(out) : out[i] = PointF(all[i])
            /\ (calls > 0 /\ calls <= area) => ret = Some(PointF(all[calls]))
            /\ calls > area => ret = None
            /\ \A i \in 1..Len(out) : \A j \in 1..Len(out) : out[i] = out[j] => i = j
            /\ Len(out) > 0 => out[1] = <<rect.x0, rect.y0>>

C3_Witness ==
    /\ RX1 - RX0 >= 2 /\ RY1 - RY0 >= 2
    /\ calls > (RX1 - RX0) * (RY1 - RY0)
    /\ ret = None
    /\ Len(out) = (RX1 - RX0) * (RY1 - RY0)

\* C4: for x0 >= x1 or y0 >= y1 the rectangle iterator returns no point: the
\* first call of next() and every later one return None.
C4_RectEmpty ==
    (RX0 >= RX1 \/ RY0 >= RY1) => (out = <<>> /\ ret = None)

\* an empty height over a non-empty width, called past the end of the width, and
\* an empty width over a non-empty height, called past the end of the height
C4_Witness ==
    /\ ret = None /\ out = <<>>
    /\ \/ RY0 >= RY1 /\ RX0 < RX1 /\ calls > RX1 - RX0
       \/ RX0 > RX1 /\ RY1 - RY0 >= 2 /\ calls > RY1 - RY0

(***************************************************************************)
(* The triangle iterator against the containment rule on exact integers.   *)
(***************************************************************************)
VX(t, i) == ToI64(t.points[i][1])
VY(t, i) == ToI64(t.points[i][2])
DetI(t) ==
    (VY(t, 2) - VY(t, 3)) * (VX(t, 1) - VX(t, 3)) + (VX(t, 3) - VX(t, 2)) * (VY(t, 1) - VY(t, 3))
N1(t, x, y) == (VY(t, 2) - VY(t, 3)) * (x - VX(t, 3)) + (VX(t, 3) - VX(t, 2)) * (y - VY(t, 3))
N2(t, x, y) == (VY(t, 3) - VY(t, 1)) * (x - VX(t, 3)) + (VX(t, 1) - VX(t, 3)) * (y - VY(t, 3))
\* p1 >= 0, p2 >= 0, p1 + p2 <= 1 for p1 = N1/det, p2 = N2/det, det # 0
Inside(t, x, y) ==
    LET d == DetI(t)  a == N1(t, x, y)  b == N2(t, x, y)
    IN  IF d > 0 THEN a >= 0 /\ b >= 0 /\ a + b <= d
        ELSE a <= 0 /\ b <= 0 /\ a + b >= d
MinOf3(a, b, c) == Min2(Min2(a, b), c)
MaxOf3(a, b, c) == Max2(Max2(a, b), c)
BBox(t) ==
    RowMajor(MinOf3(VX(t, 1), VX(t, 2), VX(t, 3)), MaxOf3(VX(t, 1), VX(t, 2), VX(t, 3)),
             MinOf3(VY(t, 1), VY(t, 2), VY(t, 3)), MaxOf3(VY(t, 1), VY(t, 2), VY(t, 3)))
\* the item expected for an accepted candidate: the weights [p1, p2, 1 - p1 - p2] of
\* next(), p1 and p2 being the quotients by det (the sign of a zero aside)
ExpectedItem(t, p) ==
    LET d == DetI(t)  a == N1(t, p[1], p[2])  b == N2(t, p[1], p[2])
        p1 == FDiv(FromI64(a), FromI64(d))
        p2 == FDiv(FromI64(b), FromI64(d))
    IN  <<PointF(p), <<p1, p2, F64Sub(F64Sub(F64One, p1), p2)>>>>
ExpectedTri(t) ==
    LET In(p) == Inside(t, p[1], p[2])
        pts == SelectSeq(BBox(t), In)
    IN  [i \in 1..Len(pts) |-> ExpectedItem(t, pts[i])]

\* the triangle of tests::tri and what the test expects of it
Tri033 == Triangle(<<FromI64(0), FromI64(0)>>, <<FromI64(3), FromI64(0)>>,
                   <<FromI64(0), FromI64(3)>>)
Tri033Points == << <<0, 0>>, <<1, 0>>, <<2, 0>>, <<0, 1>>, <<1, 1>>, <<2, 1>>, <<0, 2>>, <<1, 2>> >>
Tri033Weights == << <<3, 0, 0>>, <<2, 1, 0>>, <<1, 2, 0>>, <<2, 0, 1>>, <<1, 1, 1>>,
                    <<0, 2, 1>>, <<1, 0, 2>>, <<0, 1, 2>> >>
\* (p * 3.0) as i64: p + 2 * p is p * 3.0, both round the exact 3 * p once
Times3(p) == F64ToI64(F64Add(p, F64Double(p)))

\* C2: for det # 0 the triangle iterator returns, in row-major order, exactly the
\* points of the half-open bounding rectangle with p1 >= 0, p2 >= 0, p1 + p2 <= 1,
\* each with the weights [p1, p2, 1 - p1 - p2]; for (0,0),(3,0),(0,3) these are the
\* 8 points and weights of tests::tri.
C2_TriContainment ==
    (DetI(tri) # 0) =>
        LET all == ExpectedTri(tri)
        IN  /\ Len(out) = Min2(calls, Len(all))
            /\ \A i \in 1..Len(out) :
                   /\ out[i][1] = all[i][1]
                   /\ \A j \in 1..3 : F64Eq(out[i][2][j], all[i][2][j])
            /\ (calls > 0 /\ calls <= Len(all)) => ret = Some(out[calls])
            /\ calls > Len(all) => ret = None
            /\ (tri = Tri033 /\ calls > 8) =>
                   /\ Len(out) = 8
                   /\ \A i \in 1..8 :
                          /\ out[i][1] = PointF(Tri033Points[i])
                          /\ <<Times3(out[i][2][1]), Times3(out[i][2][2]), Times3(out[i][2][3])>>
                                 = <<I64Of(Tri033Weights[i][1]), I64Of(Tri033Weights[i][2]),
                                     I64Of(Tri033Weights[i][3])>>

C2_Witness == tri = Tri033 /\ calls = 9 /\ ret = None /\ Len(out) = 8

\* C5: a triangle with det = 0 makes the iterator return no point: every candidate
\* of its bounding rectangle gets weights that are not finite and fails the
\* containment test, and every call of next() returns None.
C5_DegenerateEmpty ==
    (DetI(tri) = 0) =>
        /\ out = <<>> /\ ret = None
        /\ tit.det.abs = 0
        /\ \A i \in 1..Len(BBox(tri)) :
               LET x == PointF(BBox(tri)[i])[1]
                   y == PointF(BBox(tri)[i])[2]
               IN  /\ ~IsFinite(TriP1(tit, x, y)) /\ ~IsFinite(TriP2(tit, x, y))
                   /\ ~TriAccept(TriP1(tit, x, y), TriP2(tit, x, y))

\* a collinear triangle with a non-empty bounding rectangle, one of whose candidates
\* gets p1 = +inf (which passes p1 >= 0), iterated to its None
C5_Witness ==
    /\ DetI(tri) = 0 /\ calls >= 1 /\ ret = None
    /\ Len(BBox(tri)) >= 4
    /\ \E i \in 1..Len(BBox(tri)) :
           TriP1(tit, PointF(BBox(tri)[i])[1], PointF(BBox(tri)[i])[2]) = Inf(FALSE)

(***************************************************************************)
(* line.rs: Line and its iterator.  line_drawing::Midpoint is not part of  *)
(* this source: the points Midpoint::new(start, end) yields are an input   *)
(* of the model, `inner`, and the inner iterator is what is left of them.  *)
(* len_recip is kept as l2 = dx * dx + dy * dy (len_recip = 1 / sqrt(l2)); *)
(* the weights [f, 1 - f] of an item are kept as [d2, l2], f being         *)
(* sqrt(d2) * len_recip.                                                   *)
(***************************************************************************)
Line(start, end) == [start |-> start, end |-> end]

\* Line::into_iter
LineIntoIter(l, inner) ==
    LET dx == FSub(l.end[1], l.start[1])
        dy == FSub(l.end[2], l.start[2])
    IN  [start |-> l.start, inner |-> inner,
         l2 |-> ToI64(FAdd(FMul(dx, dx), FMul(dy, dy)))]

\* line::IntoIter::next: self.inner.next().map(..)
LineNext(it) ==
    IF it.inner = <<>> THEN [it |-> it, item |-> None]
    ELSE LET p == Head(it.inner)
             dx == FSub(p[1], it.start[1])
             dy == FSub(p[2], it.start[2])
         IN  [it |-> [it EXCEPT !.inner = Tail(it.inner)],
              item |-> Some(<<p, [d2 |-> ToI64(FAdd(FMul(dx, dx), FMul(dy, dy))),
                                 l2 |-> it.l2]>>)]

RECURSIVE LineCollect(_)
LineCollect(it) ==
    LET Rest(n) == IF ~IsSome(n.item) THEN <<>>
                   ELSE <<n.item[1]>> \o LineCollect(n.it)
    IN  The({Rest(n) : n \in {LineNext(it)}})

(***************************************************************************)
(* shape.rs, point.rs: the Shape variants and their point sequences.       *)
(***************************************************************************)
\* A Shape is [kind, v]: the variant's name and the payload's numbers in order
\* (Point: x, y; Rect: x0, x1, y0, y1; Tri: x1, y1, x2, y2, x3, y3; Line: the
\* start's x, y, the end's x, y, then the x, y of each point of `inner`).
PointShape(p) == [kind |-> "Point", v |-> p]
LineShape(l, inner) ==
    [kind |-> "Line",
     v |-> l.start \o l.end
           \o [i \in 1..(2 * Len(inner)) |-> inner[(i + 1) \div 2][2 - (i % 2)]]]
AsLine(s) == Line(<<s.v[1], s.v[2]>>, <<s.v[3], s.v[4]>>)
LineInner(s) == [k \in 1..((Len(s.v) - 4) \div 2) |-> <<s.v[3 + 2 * k], s.v[4 + 2 * k]>>]
RectShape(r) == [kind |-> "Rect", v |-> <<r.x0, r.x1, r.y0, r.y1>>]
TriShape(t) == [kind |-> "Tri", v |-> t.points[1] \o t.points[2] \o t.points[3]]
AsPoint(s) == <<s.v[1], s.v[2]>>
AsRect(s) == Rectangle(s.v[1], s.v[2], s.v[3], s.v[4])
AsTri(s) == Triangle(<<s.v[1], s.v[2]>>, <<s.v[3], s.v[4]>>, <<s.v[5], s.v[6]>>)

\* Shape::vertices, delegating to the wrapped primitive's vertices()
ShapeVertices(s) ==
    CASE s.kind = "Point" -> 1
      [] s.kind = "Line" -> 2
      [] s.kind = "Rect" -> 4
      [] s.kind = "Tri" -> 3

\* the points Shape's iterator returns up to its first None: once(p) for a Point,
\* the rectangle's items, the line's and the triangle's items mapped through
\* Coord::point
ShapePoints(s) ==
    CASE s.kind = "Point" -> <<AsPoint(s)>>
      [] s.kind = "Line" ->
            The({[i \in 1..Len(items) |-> items[i][1]] :
                    items \in {LineCollect(LineIntoIter(AsLine(s), LineInner(s)))}})
      [] s.kind = "Rect" -> RectCollect(RectIntoIter(AsRect(s)))
      [] s.kind = "Tri" ->
            The({[i \in 1..Len(items) |-> items[i][1]] :
                    items \in {TriCollect(TriIntoIter(AsTri(s)))}})

\* Shape::into_iter: the variant's own iterator; a Point's is iter::once(p)
ShapeIntoIter(s) ==
    CASE s.kind = "Point" -> [kind |-> "Point", it |-> Some(AsPoint(s))]
      [] s.kind = "Line" -> [kind |-> "Line", it |-> LineIntoIter(AsLine(s), LineInner(s))]
      [] s.kind = "Rect" -> [kind |-> "Rect", it |-> RectIntoIter(AsRect(s))]
      [] s.kind = "Tri" -> [kind |-> "Tri", it |-> TriIntoIter(AsTri(s))]

\* ShapeNext with the triangle arm taking the point of every second item only
ShapeNextSkipping(i) ==
    CASE i.kind = "Point" -> [it |-> [i EXCEPT !.it = None], item |-> i.it]
      [] i.kind = "Line" ->
            The({[it |-> [i EXCEPT !.it = n.it],
                  item |-> IF IsSome(n.item) THEN Some(n.item[1][1]) ELSE None] :
                    n \in {LineNext(i.it)}})
      [] i.kind = "Rect" ->
            The({[it |-> [i EXCEPT !.it = n.it], item |-> n.item] : n \in {RectNext(i.it)}})
      [] i.kind = "Tri" ->
            The({[it |-> [i EXCEPT !.it = n.it],
                  item |-> IF IsSome(n.item) THEN Some(n.item[1][1]) ELSE None] :
                    n \in {TriNext(TriNext(i.it).it)}})

\* shape::IntoIter::next: the wrapped iterator's next(), a line's and a triangle's
\* item mapped through Coord::point
ShapeNext(i) ==
    CASE i.kind = "Point" -> [it |-> [i EXCEPT !.it = None], item |-> i.it]
      [] i.kind = "Line" ->
            The({[it |-> [i EXCEPT !.it = n.it],
                  item |-> IF IsSome(n.item) THEN Some(n.item[1][1]) ELSE None] :
                    n \in {LineNext(i.it)}})
      [] i.kind = "Rect" ->
            The({[it |-> [i EXCEPT !.it = n.it], item |-> n.item] : n \in {RectNext(i.it)}})
      [] i.kind = "Tri" ->
            The({[it |-> [i EXCEPT !.it = n.it],
                  item |-> IF IsSome(n.item) THEN Some(n.item[1][1]) ELSE None] :
                    n \in {TriNext(i.it)}})

(***************************************************************************)
(* The Shape iterator driven call by call.                                 *)
(***************************************************************************)
MaxShapeCoord == 2     \* the largest coordinate of the shapes iterated
MaxInner == 2          \* a line's inner iterator yields at most this many points

ShapeCoords == {FromI64(x) : x \in 0..MaxShapeCoord}
InnerPoints == {<<FromI64(x), FromI64(y)>> : x \in 0..1, y \in 0..1}
InnerSeqs == UNION {[1..n -> InnerPoints] : n \in 0..MaxInner}
ShapeInputs ==
    {PointShape(<<x, y>>) : x \in ShapeCoords, y \in ShapeCoords}
    \cup {LineShape(Line(a, b), inner) : a \in InnerPoints, b \in InnerPoints,
                                         inner \in InnerSeqs}
    \cup {RectShape(Rectangle(x0, x1, y0, y1)) : x0 \in ShapeCoords, x1 \in ShapeCoords,
                                                 y0 \in ShapeCoords, y1 \in ShapeCoords}
    \cup {TriShape(Triangle(<<x1, y1>>, <<x2, y2>>, <<x3, y3>>)) :
             x1 \in ShapeCoords, y1 \in ShapeCoords, x2 \in ShapeCoords,
             y2 \in ShapeCoords, x3 \in ShapeCoords, y3 \in ShapeCoords}

InitShape ==
    /\ shape \in ShapeInputs
    /\ sit = ShapeIntoIter(shape)
    /\ rect = NoRect /\ rit = RectIntoIter(NoRect)
    /\ tri = NoTri /\ tit = TriIntoIter(NoTri)
    /\ out = <<>> /\ ret = None /\ calls = 0 /\ idle = 0
    /\ attrs = TRUE
    /\ width = 0 /\ height = 0 /\ color = None /\ front = <<>> /\ back = <<>>
    /\ mesh = <<>> /\ lastOp = "new" /\ res = NoResult /\ puts = <<>>
    /\ pre = [color |-> None, front |-> <<>>, back |-> <<>>]
    /\ direct = 0

\* one call of shape::IntoIter::next
ShapeStep ==
    /\ idle < 2
    /\ \E n \in {ShapeNext(sit)} :
           /\ sit' = n.it
           /\ ret' = n.item
           /\ out' = IF IsSome(n.item) THEN Append(out, n.item[1]) ELSE out
           /\ idle' = IF IsSome(n.item) THEN 0 ELSE idle + 1
    /\ calls' = calls + 1
    /\ UNCHANGED <<rect, rit, tri, tit, shape>>
    /\ UNCHANGED rendVars

SpecShape == InitShape /\ [][ShapeStep]_vars

(***************************************************************************)
(* renderer.rs: SimpleRenderer and Renderer::draw.  `self` is the record   *)
(* [attrs, color, width, height, front, back].                             *)
(***************************************************************************)
DefaultPx == 0
Colors == {1, 2}

\* SimpleRenderer::new
New(w, h, a) ==
    [attrs |-> a, color |-> None, width |-> w, height |-> h,
     front |-> [i \in 1..(w * h) |-> DefaultPx],
     back |-> [i \in 1..(w * h) |-> DefaultPx]]

\* get_attr: SimpleRenderer's clone of the color, or the trait's default None
GetAttr(self, slot) == IF self.attrs THEN self.color ELSE None

\* PutPixel writing into the front buffer
PutPixelFront(self, p, px) ==
    LET idx == p[2] * self.width + p[1]
    IN  IF idx < Len(self.front)
        THEN [self |-> [self EXCEPT !.front[idx + 1] = px], panic |-> FALSE]
        ELSE [self |-> self, panic |-> TRUE]

\* put_pixel: an index past the end of the back buffer panics
PutPixel(self, p, px) ==
    LET idx == p[2] * self.width + p[1]
    IN  IF idx < Len(self.back)
        THEN [self |-> [self EXCEPT !.back[idx + 1] = px], panic |-> FALSE]
        ELSE [self |-> self, panic |-> TRUE]

\* Clip with the bounds included
ClipInclusive(c, w, h) ==
    IF IsPositive(c[1]) /\ ToUsize(c[1]) <= w /\ IsPositive(c[2]) /\ ToUsize(c[2]) <= h
    THEN Some(<<ToUsize(c[1]), ToUsize(c[2])>>)
    ELSE None

\* the filter_map closure of draw
Clip(c, w, h) ==
    IF IsPositive(c[1]) /\ ToUsize(c[1]) < w /\ IsPositive(c[2]) /\ ToUsize(c[2]) < h
    THEN Some(<<ToUsize(c[1]), ToUsize(c[2])>>)
    ELSE None

\* DrawFragment writing the default pixel when there is no attribute
DrawFragmentOrDefault(acc, p) ==
    LET attr == GetAttr(acc.self, 0)
        px == IF IsSome(attr) THEN attr[1] ELSE DefaultPx
        w == PutPixel(acc.self, p, px)
    IN  [acc EXCEPT !.self = w.self, !.puts = Append(acc.puts, <<p, px>>),
                    !.frags = acc.frags + 1]

\* the closure of the inner fold, for one clipped point p.
\* acc = [self, puts, shapes, verts, frags, panic]
DrawFragment(acc, p) ==
    LET attr == GetAttr(acc.self, 0)
    IN  IF acc.panic THEN acc
        ELSE IF IsSome(attr)
        THEN LET w == PutPixel(acc.self, p, attr[1])
             IN  [acc EXCEPT !.self = w.self,
                             !.puts = Append(acc.puts, <<p, attr[1]>>),
                             !.frags = IF w.panic THEN acc.frags ELSE acc.frags + 1,
                             !.panic = w.panic]
        ELSE [acc EXCEPT !.frags = acc.frags + 1]

\* filter_map and the inner fold over the drawable's points, from the i-th on
RECURSIVE DrawFrags(_, _, _)
DrawFrags(acc, pts, i) ==
    LET Step(a, p) == IF IsSome(p) THEN DrawFragment(a, p[1]) ELSE a
        One(a) == The({Step(a, p) : p \in {Clip(pts[i], a.self.width, a.self.height)}})
    IN  IF i > Len(pts) THEN acc
        ELSE The({DrawFrags(b, pts, i + 1) : b \in {The({One(a) : a \in {acc}})}})

\* DrawShape counting a drawable only when it produced a fragment
DrawShapeSkipEmpty(acc, drawable) ==
    LET Count(done) ==
            IF done.panic \/ done.frags = acc.frags THEN done
            ELSE [done EXCEPT !.shapes = acc.shapes + 1,
                              !.verts = acc.verts + ShapeVertices(drawable)]
    IN  The({Count(done) :
                done \in {The({DrawFrags(acc, pts, 1) : pts \in {ShapePoints(drawable)}})}})

\* the closure of the outer fold, for one drawable
DrawShape(acc, drawable) ==
    LET verts == acc.verts + ShapeVertices(drawable)
        Count(done) ==
            IF done.panic THEN done
            ELSE [done EXCEPT !.shapes = acc.shapes + 1, !.verts = verts]
    IN  The({Count(done) :
                done \in {The({DrawFrags(acc, pts, 1) : pts \in {ShapePoints(drawable)}})}})

\* mesh.fold((0, 0, 0), ...), from the i-th drawable on
RECURSIVE DrawFold(_, _, _)
DrawFold(acc, m, i) ==
    LET Rest(a) == IF i > Len(m) \/ a.panic THEN a
                   ELSE The({DrawFold(b, m, i + 1) : b \in {DrawShape(a, m[i])}})
    IN  The({Rest(a) : a \in {acc}})

\* Renderer::draw
DrawMesh(self, m) ==
    DrawFold([self |-> self, puts |-> <<>>, shapes |-> 0, verts |-> 0, frags |-> 0,
              panic |-> FALSE], m, 1)

(***************************************************************************)
(* The renderer driven by a caller that draws one mesh.                    *)
(***************************************************************************)
Self == [attrs |-> attrs, color |-> color, width |-> width, height |-> height,
         front |-> front, back |-> back]
Snapshot == [color |-> color, front |-> front, back |-> back]
F0 == FromI64(0)
F1 == FromI64(1)
Far == 2 * MaxDim - 1

\* the drawables the caller's scene is made of, in the scene's order: the origin,
\* a triangle over the whole viewport and beyond, the origin as (-0.0, 0.0), a
\* one-row rectangle starting left of the viewport, a small triangle, a triangle
\* beyond the viewport, a point above it
Catalogue ==
    << PointShape(<<F0, F0>>),
       TriShape(Triangle(<<F0, F0>>, <<FromI64(Far), F0>>, <<F0, FromI64(Far)>>)),
       PointShape(<<NegZero, F0>>),
       RectShape(Rectangle(FromI64(0 - 1), FromI64(MaxDim), F0, F1)),
       TriShape(Triangle(<<F0, F0>>, <<F1, F0>>, <<F0, F1>>)),
       TriShape(Triangle(<<FromI64(Far), FromI64(Far)>>, <<FromI64(Far + 2), FromI64(Far)>>,
                         <<FromI64(Far), FromI64(Far + 2)>>)),
       PointShape(<<F1, FromI64(0 - 1)>>) >>

\* the n drawables of the scene from the i-th on, cyclically
Window(i, n) == [k \in 1..n |-> Catalogue[((i + k - 2) % Len(Catalogue)) + 1]]
Meshes == {Window(i, n) : i \in 1..Len(Catalogue), n \in 0..MaxMesh}

Init ==
    /\ rect = NoRect /\ rit = RectIntoIter(NoRect)
    /\ tri = NoTri /\ tit = TriIntoIter(NoTri)
    /\ out = <<>> /\ ret = None /\ calls = 0 /\ idle = 0
    /\ shape = <<>> /\ sit = <<>>
    /\ attrs \in BOOLEAN
    /\ width \in 1..MaxDim /\ height \in 1..MaxDim
    /\ color = New(width, height, attrs).color
    /\ front = New(width, height, attrs).front
    /\ back = New(width, height, attrs).back
    /\ mesh \in Meshes
    /\ lastOp = "new" /\ res = NoResult /\ puts = <<>>
    /\ pre = Snapshot
    /\ direct = 0

\* set_attr: SimpleRenderer stores the color, the trait's default does nothing
SetAttr(c) ==
    /\ color' = IF attrs THEN Some(c) ELSE color
    /\ lastOp' = "set_attr"
    /\ pre' = Snapshot
    /\ UNCHANGED <<attrs, width, height, front, back, mesh, res, puts, direct>>
    /\ UNCHANGED iterVars

\* Swap copying the back buffer to the front
SwapCopy ==
    /\ front' = back
    /\ lastOp' = "swap"
    /\ pre' = Snapshot
    /\ UNCHANGED <<attrs, width, height, color, back, mesh, res, puts, direct>>
    /\ UNCHANGED iterVars

\* swap: mem::swap of front and back
Swap ==
    /\ front' = back
    /\ back' = front
    /\ lastOp' = "swap"
    /\ pre' = Snapshot
    /\ UNCHANGED <<attrs, width, height, color, mesh, res, puts, direct>>
    /\ UNCHANGED iterVars

\* draw(mesh)
Draw ==
    /\ \E d \in {DrawMesh(Self, mesh)} :
           /\ back' = d.self.back
           /\ front' = d.self.front
           /\ color' = d.self.color
           /\ puts' = d.puts
           /\ res' = [ok |-> ~d.panic, shapes |-> d.shapes, verts |-> d.verts,
                      frags |-> d.frags]
    /\ lastOp' = "draw"
    /\ pre' = Snapshot
    /\ UNCHANGED <<attrs, width, height, mesh, direct>>
    /\ UNCHANGED iterVars

Next ==
    \/ \E c \in Colors : SetAttr(c)
    \/ Swap
    \/ Draw

Spec == Init /\ [][Next]_vars

(***************************************************************************)
(* The renderer with a caller that also calls put_pixel itself.            *)
(***************************************************************************)
MaxDirect == 1     \* the caller calls put_pixel itself at most this often

\* the points the caller passes: in the buffer, past the end of a row, past the end
\* of the buffer
DirectPoints == {<<x, y>> : x \in {0, MaxDim}, y \in {0, MaxDim}}

\* put_pixel(p, px) called by the caller; a panic leaves the renderer as it was
PutPixelCall(p, px) ==
    /\ direct < MaxDirect
    /\ \E r \in {PutPixel(Self, p, px)} :
           /\ back' = r.self.back
           /\ front' = r.self.front
           /\ color' = r.self.color
    /\ lastOp' = "put_pixel"
    /\ pre' = Snapshot
    /\ direct' = direct + 1
    /\ UNCHANGED <<attrs, width, height, mesh, res, puts>>
    /\ UNCHANGED iterVars

InitDirect == Init /\ Len(mesh) <= 1

NextDirect ==
    \/ \E c \in Colors : SetAttr(c)
    \/ Swap
    \/ Draw
    \/ \E p \in DirectPoints, px \in Colors : PutPixelCall(p, px)

SpecDirect == InitDirect /\ [][NextDirect]_vars

(***************************************************************************)
(* The renderer drawing two triangles that share an edge.                  *)
(***************************************************************************)
MaxShared == 3     \* the largest vertex coordinate of the second triangle

\* the shared edge runs between the second and the third vertex of tests::tri's
\* triangle; the first triangle has its first vertex on the origin's side of it,
\* the second triangle has its second vertex on the other side
SharedMeshes ==
    LET b == Tri033.points[2]
        c == Tri033.points[3]
        sum == ToI64(b[1]) + ToI64(b[2])
        grid == {<<x, y>> : x \in 0..MaxShared, y \in 0..MaxShared}
    IN  {<<TriShape(Triangle(PointF(a), b, c)), TriShape(Triangle(b, PointF(d), c))>> :
            a \in {g \in grid : g[1] + g[2] < sum},
            d \in {g \in grid : g[1] + g[2] > sum}}

InitShared ==
    /\ rect = NoRect /\ rit = RectIntoIter(NoRect)
    /\ tri = NoTri /\ tit = TriIntoIter(NoTri)
    /\ out = <<>> /\ ret = None /\ calls = 0 /\ idle = 0
    /\ shape = <<>> /\ sit = <<>>
    /\ attrs \in BOOLEAN
    /\ width = MaxShared + 1 /\ height = MaxShared + 1
    /\ color = New(width, height, attrs).color
    /\ front = New(width, height, attrs).front
    /\ back = New(width, height, attrs).back
    /\ mesh \in SharedMeshes
    /\ lastOp = "new" /\ res = NoResult /\ puts = <<>>
    /\ pre = Snapshot
    /\ direct = 0

SpecShared == InitShared /\ [][Next]_vars

(***************************************************************************)
(* What draw is expected to do, stated on the points the drawables yield.  *)
(***************************************************************************)
\* 0 <= x < w and 0 <= y < h, on the coordinates' values
InView(c, w, h) ==
    0 <= ToI64(c[1]) /\ ToI64(c[1]) < w /\ 0 <= ToI64(c[2]) /\ ToI64(c[2]) < h
CountInView(s, w, h) ==
    The({Cardinality({k \in 1..Len(ps) : InView(ps[k], w, h)}) : ps \in {ShapePoints(s)}})
RECURSIVE InViewFrom(_, _, _, _)
InViewFrom(m, i, w, h) ==
    IF i > Len(m) THEN 0 ELSE CountInView(m[i], w, h) + InViewFrom(m, i + 1, w, h)
InViewTotal(m, w, h) == InViewFrom(m, 1, w, h)
RECURSIVE VertexFrom(_, _)
VertexFrom(m, i) ==
    IF i > Len(m) THEN 0 ELSE ShapeVertices(m[i]) + VertexFrom(m, i + 1)
VertexTotal(m) == VertexFrom(m, 1)
\* none of the points the drawable yields is in the viewport
Outside(s, w, h) == CountInView(s, w, h) = 0
\* the renderer as it was before the last call
PreSelf == [attrs |-> attrs, color |-> pre.color, width |-> width, height |-> height,
            front |-> pre.front, back |-> pre.back]
Pixels(w, h) == {<<x, y>> : x \in 0..(w - 1), y \in 0..(h - 1)}
IsSingleTri(m) == Len(m) = 1 /\ m[1].kind = "Tri"
\* the containment test accepts every pixel of the viewport
CoversRegion(t, w, h) ==
    DetI(t) # 0 /\ \A p \in Pixels(w, h) : Inside(t, p[1], p[2])
\* and the half-open bounding rectangle holds every pixel of the viewport
CoversScan(t, w, h) ==
    /\ CoversRegion(t, w, h)
    /\ MinOf3(VX(t, 1), VX(t, 2), VX(t, 3)) <= 0 /\ MaxOf3(VX(t, 1), VX(t, 2), VX(t, 3)) >= w
    /\ MinOf3(VY(t, 1), VY(t, 2), VY(t, 3)) <= 0 /\ MaxOf3(VY(t, 1), VY(t, 2), VY(t, 3)) >= h

\* C1 as stated: after set_attr(0, c), a draw of one triangle whose containment
\* region covers every pixel of the viewport, and swap, every pixel of buffer() is c.
C1_Original ==
    [][(/\ lastOp = "draw" /\ attrs /\ IsSome(color)
        /\ IsSingleTri(mesh) /\ CoversRegion(AsTri(mesh[1]), width, height)
        /\ lastOp' = "swap")
       => \A i \in 1..(width * height) : front'[i] = color[1]]_vars

\* C1, amended: after set_attr(0, c), a draw of one triangle whose containment
\* region covers every pixel of the viewport and whose bounding rectangle reaches
\* x = width and y = height, and swap, every pixel of buffer() is c, row 0 and
\* column 0 included.
C1_FullCoverage ==
    [][(/\ lastOp = "draw" /\ attrs /\ IsSome(color)
        /\ IsSingleTri(mesh) /\ CoversScan(AsTri(mesh[1]), width, height)
        /\ lastOp' = "swap")
       => /\ Len(front') = width * height
          /\ \A i \in 1..(width * height) : front'[i] = color[1]]_vars

C1_Witness ==
    /\ lastOp = "swap" /\ attrs /\ IsSome(color)
    /\ width = MaxDim /\ height = MaxDim
    /\ IsSingleTri(mesh) /\ CoversScan(AsTri(mesh[1]), width, height)
    /\ \A i \in 1..(width * height) : front[i] = color[1] /\ pre.back[i] = color[1]

\* C6 as stated: the fragment count of draw is the number of yielded points, with
\* multiplicity over the drawables, that satisfy 0 <= x < width and 0 <= y < height.
C6_FragmentCount ==
    lastOp = "draw" => res.frags = InViewTotal(mesh, width, height)

\* C7: draw returns Ok((s, v, f)) with s the number of drawables and v the sum of
\* their vertices(); a drawable none of whose points is in the viewport adds nothing
\* to f and writes no pixel: f and the back buffer are those of the mesh without
\* such drawables.  An empty mesh gives (0, 0, 0).
C7_Counts ==
    lastOp = "draw" =>
        LET isIn(s) == ~Outside(s, width, height)
            kept == DrawMesh(PreSelf, SelectSeq(mesh, isIn))
        IN  /\ res.ok
            /\ res.shapes = Len(mesh)
            /\ res.verts = VertexTotal(mesh)
            /\ res.frags = kept.frags
            /\ back = kept.self.back
            /\ (\A i \in 1..Len(mesh) : Outside(mesh[i], width, height)) =>
                   (res.frags = 0 /\ puts = <<>> /\ back = pre.back)
            /\ mesh = <<>> => (res.shapes = 0 /\ res.verts = 0 /\ res.frags = 0)

\* a drawn mesh of a drawable in the viewport and one that yields points, all of
\* them outside of it
C7_Witness ==
    /\ lastOp = "draw" /\ Len(mesh) = 2 /\ res.frags > 0 /\ puts # <<>>
    /\ \E i \in 1..2 : Outside(mesh[i], width, height) /\ Len(ShapePoints(mesh[i])) > 1
    /\ res.shapes = 2 /\ res.verts > 3

\* C8: every put_pixel call of draw has p.0 < width and p.1 < height, so its
\* index p.1 * width + p.0 is below width * height, and draw does not panic.
C8_PutsInBounds ==
    /\ res.ok
    /\ \A i \in 1..Len(puts) :
           /\ puts[i][1][1] >= 0 /\ puts[i][1][1] < width
           /\ puts[i][1][2] >= 0 /\ puts[i][1][2] < height
           /\ puts[i][1][2] * width + puts[i][1][1] < Len(back)
    /\ Len(back) = width * height

\* a draw that wrote pixels, of a mesh that yields a point with a negative
\* coordinate and a point at or beyond the width or the height
C8_Witness ==
    /\ lastOp = "draw" /\ puts # <<>>
    /\ \E i \in 1..Len(mesh) : \E k \in 1..Len(ShapePoints(mesh[i])) :
           ToI64(ShapePoints(mesh[i])[k][1]) < 0 \/ ToI64(ShapePoints(mesh[i])[k][2]) < 0
    /\ \E i \in 1..Len(mesh) : \E k \in 1..Len(ShapePoints(mesh[i])) :
           \/ ToI64(ShapePoints(mesh[i])[k][1]) >= width
           \/ ToI64(ShapePoints(mesh[i])[k][2]) >= height

\* C9: swap exchanges the buffers and changes nothing else; a second swap right
\* after it restores both buffers; a draw right after a swap leaves every pixel
\* it does not write as it was in the frame published before the swap.
C9_SwapExchanges ==
    [][/\ lastOp' = "swap" =>
              /\ front' = back /\ back' = front
              /\ UNCHANGED <<width, height, color, attrs>>
       /\ (lastOp = "swap" /\ lastOp' = "swap") =>
              (front' = pre.front /\ back' = pre.back /\ color' = pre.color)
       /\ (lastOp = "swap" /\ lastOp' = "draw") =>
              \A i \in 1..Len(back') :
                  (\A k \in 1..Len(puts') :
                       puts'[k][1][2] * width + puts'[k][1][1] + 1 # i)
                  => back'[i] = pre.front[i]]_vars

\* after a swap, two buffers that differ, both drawn into
C9_Witness ==
    /\ lastOp = "swap" /\ front # back
    /\ front = pre.back /\ back = pre.front
    /\ \E i \in 1..Len(front) : front[i] # DefaultPx
    /\ \E i \in 1..Len(back) : back[i] # DefaultPx /\ back[i] # front[i]

\* C10: when get_attr gives None (a SimpleRenderer whose set_attr was never called,
\* or the trait's default get_attr) draw calls put_pixel for no point, leaves both
\* buffers as they were and returns Ok with the counts it returns with a color set.
C10_NoAttrNoWrite ==
    (lastOp = "draw" /\ (pre.color = None \/ ~attrs)) =>
        LET colored == DrawMesh([PreSelf EXCEPT !.attrs = TRUE, !.color = Some(1)], mesh)
        IN  /\ puts = <<>>
            /\ back = pre.back /\ front = pre.front /\ color = pre.color
            /\ res.ok
            /\ res.shapes = Len(mesh) /\ res.verts = VertexTotal(mesh)
            /\ res.shapes = colored.shapes /\ res.verts = colored.verts
            /\ res.frags = colored.frags

C10_Witness ==
    /\ lastOp = "draw" /\ attrs /\ pre.color = None
    /\ res.frags > 1 /\ puts = <<>> /\ Len(mesh) = 2

(***************************************************************************)
(* Claims about the weights in f64.                                        *)
(***************************************************************************)
\* on every candidate of the triangle's bounding rectangle the containment test on
\* the f64 weights decides as the rule p1 >= 0, p2 >= 0, p1 + p2 <= 1 does on the
\* exact quotients
RoundingAgrees ==
    (DetI(tri) # 0 /\ calls = 0) =>
        \A i \in 1..Len(BBox(tri)) :
            LET x == PointF(BBox(tri)[i])[1]
                y == PointF(BBox(tri)[i])[2]
            IN  TriAccept(TriP1(tit, x, y), TriP2(tit, x, y))
                    = Inside(tri, BBox(tri)[i][1], BBox(tri)[i][2])

\* C11: every item the iterator of a triangle with det # 0 returns carries weights
\* p1, p2, p3 that are each >= 0 and whose sum p1 + p2 + p3 is 1.
C11_WeightsSumToOne ==
    (DetI(tri) # 0 /\ IsSome(ret)) =>
        LET w == ret[1][2]
        IN  /\ F64GeZero(w[1]) /\ F64GeZero(w[2]) /\ F64GeZero(w[3])
            /\ F64Add(F64Add(w[1], w[2]), w[3]) = F64One

\* the six orders of three vertices: the triangle with vertices t.points[s[1]],
\* t.points[s[2]], t.points[s[3]]
VertexOrders ==
    {<<1, 2, 3>>, <<1, 3, 2>>, <<2, 1, 3>>, <<2, 3, 1>>, <<3, 1, 2>>, <<3, 2, 1>>}
Permuted(t, s) == Triangle(t.points[s[1]], t.points[s[2]], t.points[s[3]])

\* C15: for a triangle with det # 0 and each order of its vertices, the iterator of
\* the reordered triangle returns the same points in the same order, and the weight
\* it attaches to a vertex is the value the original iterator attaches to it.
C15_PermutationInvariant ==
    (DetI(tri) # 0 /\ IsSome(ret)) =>
        \A s \in VertexOrders :
            LET items == TriCollect(TriIntoIter(Permuted(tri, s)))
                k == Len(out)
            IN  /\ k <= Len(items)
                /\ items[k][1] = ret[1][1]
                /\ \A i \in 1..3 : F64Eq(items[k][2][i], ret[1][2][s[i]])

\* the points and their order alone: every order of the vertices gives the same
\* sequence of points
PermutedPoints ==
    (DetI(tri) # 0 /\ calls = 0) =>
        \A s \in VertexOrders :
            LET own == TriCollect(TriIntoIter(tri))
                items == TriCollect(TriIntoIter(Permuted(tri, s)))
            IN  /\ Len(items) = Len(own)
                /\ \A k \in 1..Len(own) : items[k][1] = own[k][1]

\* and so it does on every reordered triangle
PermutedRoundingAgrees ==
    (DetI(tri) # 0 /\ calls = 0) =>
        \A s \in VertexOrders : \A i \in 1..Len(BBox(tri)) :
            LET it == TriIntoIter(Permuted(tri, s))
                x == PointF(BBox(tri)[i])[1]
                y == PointF(BBox(tri)[i])[2]
            IN  TriAccept(TriP1(it, x, y), TriP2(it, x, y))
                    = Inside(Permuted(tri, s), BBox(tri)[i][1], BBox(tri)[i][2])

(***************************************************************************)
(* The Shape dispatch.                                                     *)
(***************************************************************************)
\* what the wrapped primitive's own iterator returns, its weights dropped
OwnPoints(s) ==
    CASE s.kind = "Point" -> <<AsPoint(s)>>
      [] s.kind = "Line" ->
            LET own == LineCollect(LineIntoIter(AsLine(s), LineInner(s)))
            IN  [k \in 1..Len(own) |-> own[k][1]]
      [] s.kind = "Rect" -> RectCollect(RectIntoIter(AsRect(s)))
      [] s.kind = "Tri" ->
            LET own == TriCollect(TriIntoIter(AsTri(s)))
            IN  [k \in 1..Len(own) |-> own[k][1]]

\* C12: Shape::vertices() is 1, 2, 4, 3 for Point, Line, Rect, Tri, and the Shape's
\* iterator returns, call by call, exactly the points of the wrapped primitive's own
\* iterator (a line's and a triangle's without their weights), then None.
C12_ShapeDelegates ==
    /\ ShapeVertices(shape) = (CASE shape.kind = "Point" -> 1 [] shape.kind = "Line" -> 2
                                  [] shape.kind = "Rect" -> 4 [] shape.kind = "Tri" -> 3)
    /\ LET own == OwnPoints(shape)
       IN  /\ out = Prefix(own, calls)
           /\ (calls > 0 /\ calls <= Len(own)) => ret = Some(own[calls])
           /\ calls > Len(own) => ret = None

\* a triangle with three or more points and a line with two, iterated through
\* Shape to the None
C12_Witness ==
    /\ ret = None /\ calls > Len(out)
    /\ \/ shape.kind = "Tri" /\ Len(out) >= 3
       \/ shape.kind = "Line" /\ Len(out) = 2 /\ out[1] # out[2]

(***************************************************************************)
(* The published buffer.                                                   *)
(***************************************************************************)
\* C14: buffer() is the front buffer, and only swap changes it: set_attr, put_pixel
\* and draw leave the front buffer exactly as the last swap (or new) left it.
C14_FrontOnlyBySwap ==
    [][lastOp' # "swap" => front' = front]_vars

\* a put_pixel by the caller and then a draw have both written the back buffer,
\* which now differs from the front buffer
C14_Witness ==
    /\ direct >= 1 /\ lastOp = "draw" /\ puts # <<>>
    /\ back # pre.back /\ front = pre.front /\ front # back

(***************************************************************************)
(* Two triangles on one edge.                                              *)
(***************************************************************************)
\* the integer points of the half-open bounding rectangle of t that pass the
\* containment test
Emitted(t) == {BBox(t)[i] : i \in {j \in 1..Len(BBox(t)) : Inside(t, BBox(t)[j][1], BBox(t)[j][2])}}

\* C16: two triangles with det # 0 that share an edge, drawn in one mesh: a point
\* both iterators emit lies on the shared edge, draw calls put_pixel for it twice
\* and counts it twice, the fragment count being the sum of the two triangles'
\* in-view points.
C16_DoubleCoverage ==
    lastOp = "draw" =>
        LET t1 == AsTri(mesh[1])
            t2 == AsTri(mesh[2])
            view == Pixels(width, height)
            both == Emitted(t1) \cap Emitted(t2)
        IN  /\ DetI(t1) # 0 /\ DetI(t2) # 0
            /\ t1.points[2] = t2.points[1] /\ t1.points[3] = t2.points[3]
            /\ \A p \in both : N1(t1, p[1], p[2]) = 0 /\ N2(t2, p[1], p[2]) = 0
            /\ res.frags = Cardinality(Emitted(t1) \cap view)
                               + Cardinality(Emitted(t2) \cap view)
            /\ (attrs /\ IsSome(pre.color)) =>
                   \A p \in both \cap view :
                       Cardinality({k \in 1..Len(puts) : puts[k][1] = p}) = 2

\* the triangles (0,0),(3,0),(0,3) and (3,0),(3,3),(0,3) drawn with a color set:
\* (2,1) and (1,2) are on the shared edge, are written twice each and counted
\* twice each, 11 fragments on 9 pixels
C16_Witness ==
    /\ lastOp = "draw" /\ attrs /\ IsSome(pre.color)
    /\ mesh = <<TriShape(Tri033),
                TriShape(Triangle(PointF(<<3, 0>>), PointF(<<3, 3>>), PointF(<<0, 3>>)))>>
    /\ Emitted(AsTri(mesh[1])) \cap Emitted(AsTri(mesh[2])) = {<<2, 1>>, <<1, 2>>}
    /\ Cardinality({k \in 1..Len(puts) : puts[k][1] = <<2, 1>>}) = 2
    /\ Cardinality({k \in 1..Len(puts) : puts[k][1] = <<1, 2>>}) = 2
    /\ res.frags = 11
    /\ Cardinality({puts[k][1] : k \in 1..Len(puts)}) = 9

(***************************************************************************)
(* The half-open scan of the triangle's bounding rectangle.                *)
(***************************************************************************)
\* C17: every point (x, y) the triangle iterator returns has min_x <= x < max_x and
\* min_y <= y < max_y over the three vertices; a point with x = max_x or y = max_y
\* is never returned, even one that passes the containment test: for
\* (0,0),(3,0),(0,3) the vertices (3,0) and (0,3) are not returned.
C17_HalfOpenScan ==
    LET min_x == MinOf3(VX(tri, 1), VX(tri, 2), VX(tri, 3))
        max_x == MaxOf3(VX(tri, 1), VX(tri, 2), VX(tri, 3))
        min_y == MinOf3(VY(tri, 1), VY(tri, 2), VY(tri, 3))
        max_y == MaxOf3(VY(tri, 1), VY(tri, 2), VY(tri, 3))
    IN  /\ \A i \in 1..Len(out) :
               /\ min_x <= ToI64(out[i][1][1]) /\ ToI64(out[i][1][1]) < max_x
               /\ min_y <= ToI64(out[i][1][2]) /\ ToI64(out[i][1][2]) < max_y
        /\ \A x \in TriCoords, y \in TriCoords :
               (x = max_x \/ y = max_y) =>
                   \A i \in 1..Len(out) : out[i][1] # PointF(<<x, y>>)
        /\ tri = Tri033 =>
               \A i \in 1..Len(out) :
                   out[i][1] # PointF(<<3, 0>>) /\ out[i][1] # PointF(<<0, 3>>)

\* the triangle (0,0),(3,0),(0,3) iterated to the end: its vertices (3,0) and (0,3)
\* pass the containment test and are not among the 8 points returned
C17_Witness ==
    /\ tri = Tri033 /\ ret = None /\ calls > Len(out) /\ Len(out) = 8
    /\ Inside(tri, 3, 0) /\ Inside(tri, 0, 3)
    /\ \A i \in 1..Len(out) :
           out[i][1] # PointF(<<3, 0>>) /\ out[i][1] # PointF(<<0, 3>>)

====
